---- MODULE Spec2Model ----
(***************************************************************************)
(* A model of the QuickSignTest OCR web service: the metrics aggregator    *)
(* (app/metrics.py), the two request handlers (app/webservice.py) and the  *)
(* storage and metadata adapters (app/services/storage.py, database.py).   *)
(*                                                                         *)
(* Scores are floats in the code; here a score is the integer number of    *)
(* hundredths (0.5 is 50), so the threshold comparison is exact.  The      *)
(* average is kept as the exact fraction sum/len.                          *)
(***************************************************************************)
EXTENDS Integers, Sequences, FiniteSets, TLC

VARIABLES
    \* app/metrics.py module state
    predictions_total,            \* Counter
    prediction_score_histogram,   \* Histogram: [count, sum]
    low_score_predictions,        \* Counter
    running_scores,               \* the rolling window (a list)
    prediction_score_avg,         \* Gauge: the fraction [num, den]
    \* history: every score passed to update_metrics, in order of its append
    calls,
    \* concurrent callers of update_metrics (SpecThreads): per thread, the
    \* line it is at, its argument and its locals
    tpc, tscore, tsum, tavg,
    \* the web service (Spec)
    now,            \* the wall clock, in microseconds
    rpc,            \* per request: where its handling stands
    rin,            \* per request: endpoint and request body
    outcome,        \* history, per request: what each stage did
    response,       \* per request: the response the handler produced
    delivered,      \* per request: the response the caller received
    tasks,          \* per request: BackgroundTasks still to run
    invoked,        \* history, per request: the adapters invoked, in order
    bgError,        \* per request: a background task raised
    scratch,        \* the temporary files on disk (named by request)
    bucket_exists,  \* content store: the bucket MINIO_BUCKET exists
    objects,        \* content store: the objects of the bucket
    collection      \* document store: the inserted documents, in order

metricsVars == <<predictions_total, prediction_score_histogram,
                 low_score_predictions, running_scores, prediction_score_avg,
                 calls>>

threadVars == <<tpc, tscore, tsum, tavg>>

serviceVars == <<now, rpc, rin, outcome, response, delivered, tasks, invoked,
                 bgError, scratch, bucket_exists, objects, collection>>

vars == <<metricsVars, threadVars, serviceVars>>

(***************************************************************************)
(* Program constants                                                       *)
(***************************************************************************)
\* app/config.py: LOW_SCORE_THRESHOLD = 0.5, in hundredths
LOW_SCORE_THRESHOLD == 50

\* app/metrics.py: "if len(running_scores) > 1000"
RUNNING_SCORES_MAX == 1000

\* app/webservice.py: httpx.AsyncClient(timeout=30.0)
DOWNLOAD_TIMEOUT == 30

\* app/webservice.py: strftime's %f, the microseconds of the second
USEC_PER_SEC == 1000000

(***************************************************************************)
(* Bounds of the model                                                     *)
(***************************************************************************)
\* SpecMetrics: the total number of update_metrics calls explored
MaxCalls == 1003
\* SpecThreads: the number of threads, each making one update_metrics call
NumThreads == 2
\* Spec: the number of requests served, and of clock ticks
NumRequests == 2
MaxTicks == 2
\* SpecMetrics: the first FreeHead calls and the last FreeTail calls (those
\* numbered above MaxCalls - FreeTail) take any score of Scores; the calls
\* between them take the score FillScore gives their position
FreeHead == 1
\* SpecWindow: how far below and above the 1000 entries the windows that
\* update_metrics is called on reach, and how many calls follow
WindowSlack == 3
MaxWindowCalls == 3
FreeTail == 5

\* the confidence scores fed to the aggregator: below, at and above the
\* threshold
Scores == {30, 50, 80}

FillScore(n) == IF n % 3 = 0 THEN 30 ELSE IF n % 3 = 1 THEN 50 ELSE 80

ScoresAt(n) ==
    IF n <= FreeHead \/ n > MaxCalls - FreeTail THEN Scores ELSE {FillScore(n)}

(***************************************************************************)
(* app/metrics.py                                                          *)
(***************************************************************************)
\* Python's sum() over a list
RECURSIVE SumRange(_, _, _)
SumRange(s, lo, hi) ==
    IF lo > hi THEN 0
    ELSE IF lo = hi THEN s[lo]
    ELSE LET mid == (lo + hi) \div 2
         IN  SumRange(s, lo, mid) + SumRange(s, mid + 1, hi)

PySum(s) == SumRange(s, 1, Len(s))

\* Histogram.observe(score)
Observe(h, score) == [count |-> h.count + 1, sum |-> h.sum + score]

\* score < LOW_SCORE_THRESHOLD
IsLowScore_Inclusive(score) == score <= LOW_SCORE_THRESHOLD

IsLowScore(score) == score < LOW_SCORE_THRESHOLD

\* list.pop(0)
PopFirst(w) == Tail(w)

\* running_scores.append(score); if len(running_scores) > 1000: pop(0)
AppendAndTrim_OffByOne(w, score) ==
    LET a == Append(w, score)
    IN  IF Len(a) > RUNNING_SCORES_MAX + 1 THEN PopFirst(a) ELSE a

AppendAndTrim_PopLast(w, score) ==
    LET a == Append(w, score)
    IN  IF Len(a) > RUNNING_SCORES_MAX THEN SubSeq(a, 1, Len(a) - 1) ELSE a

AppendAndTrim_TrimAll(w, score) ==
    LET a == Append(w, score)
    IN  IF Len(a) > RUNNING_SCORES_MAX
        THEN SubSeq(a, Len(a) - RUNNING_SCORES_MAX + 1, Len(a)) ELSE a

AppendAndTrim(w, score) ==
    LET a == Append(w, score)
    IN  IF Len(a) > RUNNING_SCORES_MAX THEN PopFirst(a) ELSE a

\* sum(running_scores) / len(running_scores), as an exact fraction
Average_FixedDivisor(w) == [num |-> PySum(w), den |-> RUNNING_SCORES_MAX]

Average(w) == [num |-> PySum(w), den |-> Len(w)]

\* if running_scores: prediction_score_avg.set(avg_score)
GaugeAfter(gauge, w) == IF w # <<>> THEN Average(w) ELSE gauge

\* update_metrics(score), the whole call
UpdateMetrics(score) ==
    LET w == AppendAndTrim(running_scores, score)
    IN  /\ predictions_total' = predictions_total + 1
        /\ prediction_score_histogram' =
               Observe(prediction_score_histogram, score)
        /\ low_score_predictions' =
               IF IsLowScore(score) THEN low_score_predictions + 1
               ELSE low_score_predictions
        /\ running_scores' = w
        /\ prediction_score_avg' = GaugeAfter(prediction_score_avg, w)
        /\ calls' = Append(calls, score)

\* the module as imported: counters and gauge at 0, an empty window
MetricsInit ==
    /\ predictions_total = 0
    /\ prediction_score_histogram = [count |-> 0, sum |-> 0]
    /\ low_score_predictions = 0
    /\ running_scores = <<>>
    /\ prediction_score_avg = [num |-> 0, den |-> 1]
    /\ calls = <<>>

(***************************************************************************)
(* SpecMetrics: update_metrics called again and again by one caller, from  *)
(* the empty window to past the 1000-entry bound.                          *)
(***************************************************************************)
Threads == 1 .. NumThreads

ThreadsIdle ==
    /\ tpc = [t \in Threads |-> "idle"]
    /\ tscore = [t \in Threads |-> 0]
    /\ tsum = [t \in Threads |-> 0]
    /\ tavg = [t \in Threads |-> [num |-> 0, den |-> 1]]

Requests == 1 .. NumRequests

\* Python's None where a string is expected, and where a record is
None == "None"
Nil == [nil |-> TRUE]

\* the service started, no request received, both stores empty
ServiceInit ==
    /\ now = USEC_PER_SEC - 1
    /\ rpc = [r \in Requests |-> "new"]
    /\ rin = [r \in Requests |-> Nil]
    /\ outcome = [r \in Requests |-> Nil]
    /\ response = [r \in Requests |-> Nil]
    /\ delivered = [r \in Requests |-> Nil]
    /\ tasks = [r \in Requests |-> <<>>]
    /\ invoked = [r \in Requests |-> <<>>]
    /\ bgError = [r \in Requests |-> FALSE]
    /\ scratch = {}
    /\ bucket_exists = FALSE
    /\ objects = {}
    /\ collection = <<>>

CallUpdateMetrics ==
    /\ Len(calls) < MaxCalls
    /\ \E score \in ScoresAt(Len(calls) + 1) : UpdateMetrics(score)
    /\ UNCHANGED <<threadVars, serviceVars>>

InitMetrics == MetricsInit /\ ThreadsIdle /\ ServiceInit

NextMetrics == CallUpdateMetrics

SpecMetrics == InitMetrics /\ [][NextMetrics]_vars

(***************************************************************************)
(* SpecThreads: update_metrics called by concurrent threads.  The function *)
(* takes no lock, so a thread switch can fall between any two of its       *)
(* statements; each statement below is one step.  Counter.inc,             *)
(* Histogram.observe, Gauge.set, list.append and list.pop are each atomic. *)
(* The threads start either on the fresh module or on the state that 999   *)
(* sequential calls with the scores FillScore(1..999) leave.               *)
(***************************************************************************)
LowCount(s) == Cardinality({i \in 1 .. Len(s) : IsLowScore(s[i])})

\* the module state after sequential calls of update_metrics with the
\* scores of s, Len(s) <= 1000
StateAfterCalls(s) ==
    /\ predictions_total = Len(s)
    /\ prediction_score_histogram = [count |-> Len(s), sum |-> PySum(s)]
    /\ low_score_predictions = LowCount(s)
    /\ running_scores = s
    /\ prediction_score_avg = GaugeAfter([num |-> 0, den |-> 1], s)
    /\ calls = s

Prefill(n) == [i \in 1 .. n |-> FillScore(i)]

InitThreads ==
    /\ \E n \in {0, RUNNING_SCORES_MAX - 1} : StateAfterCalls(Prefill(n))
    /\ ThreadsIdle
    /\ ServiceInit

\* a step of a thread inside update_metrics leaves the service alone
Goto(t, label) ==
    /\ tpc' = [tpc EXCEPT ![t] = label]
    /\ UNCHANGED serviceVars

\* a caller enters update_metrics(score)
T_Call(t) ==
    /\ tpc[t] = "idle"
    /\ \E score \in Scores : tscore' = [tscore EXCEPT ![t] = score]
    /\ Goto(t, "inc_total")
    /\ UNCHANGED <<metricsVars, tsum, tavg>>

\* predictions_total.inc()
T_IncTotal(t) ==
    /\ tpc[t] = "inc_total"
    /\ predictions_total' = predictions_total + 1
    /\ Goto(t, "observe")
    /\ UNCHANGED <<prediction_score_histogram, low_score_predictions,
                   running_scores, prediction_score_avg, calls,
                   tscore, tsum, tavg>>

\* prediction_score_histogram.observe(score)
T_Observe(t) ==
    /\ tpc[t] = "observe"
    /\ prediction_score_histogram' =
           Observe(prediction_score_histogram, tscore[t])
    /\ Goto(t, "low_score")
    /\ UNCHANGED <<predictions_total, low_score_predictions, running_scores,
                   prediction_score_avg, calls, tscore, tsum, tavg>>

\* if score < LOW_SCORE_THRESHOLD: low_score_predictions.inc()
T_LowScore(t) ==
    /\ tpc[t] = "low_score"
    /\ low_score_predictions' =
           IF IsLowScore(tscore[t]) THEN low_score_predictions + 1
           ELSE low_score_predictions
    /\ Goto(t, "append")
    /\ UNCHANGED <<predictions_total, prediction_score_histogram,
                   running_scores, prediction_score_avg, calls,
                   tscore, tsum, tavg>>

\* running_scores.append(score)
T_Append(t) ==
    /\ tpc[t] = "append"
    /\ running_scores' = Append(running_scores, tscore[t])
    /\ calls' = Append(calls, tscore[t])
    /\ Goto(t, "check_len")
    /\ UNCHANGED <<predictions_total, prediction_score_histogram,
                   low_score_predictions, prediction_score_avg,
                   tscore, tsum, tavg>>

\* if len(running_scores) > 1000:
T_CheckLen(t) ==
    /\ tpc[t] = "check_len"
    /\ Goto(t, IF Len(running_scores) > RUNNING_SCORES_MAX
               THEN "pop" ELSE "check_nonempty")
    /\ UNCHANGED <<metricsVars, tscore, tsum, tavg>>

\* running_scores.pop(0)
T_Pop(t) ==
    /\ tpc[t] = "pop"
    /\ running_scores' = PopFirst(running_scores)
    /\ Goto(t, "check_nonempty")
    /\ UNCHANGED <<predictions_total, prediction_score_histogram,
                   low_score_predictions, prediction_score_avg, calls,
                   tscore, tsum, tavg>>

\* if running_scores:
T_CheckNonEmpty(t) ==
    /\ tpc[t] = "check_nonempty"
    /\ Goto(t, IF running_scores # <<>> THEN "sum" ELSE "done")
    /\ UNCHANGED <<metricsVars, tscore, tsum, tavg>>

\* sum(running_scores), the left operand of the division
T_Sum(t) ==
    /\ tpc[t] = "sum"
    /\ tsum' = [tsum EXCEPT ![t] = PySum(running_scores)]
    /\ Goto(t, "divide")
    /\ UNCHANGED <<metricsVars, tscore, tavg>>

\* avg_score = <sum> / len(running_scores)
T_Divide(t) ==
    /\ tpc[t] = "divide"
    /\ tavg' = [tavg EXCEPT
                   ![t] = [num |-> tsum[t], den |-> Len(running_scores)]]
    /\ Goto(t, "set_gauge")
    /\ UNCHANGED <<metricsVars, tscore, tsum>>

\* prediction_score_avg.set(avg_score)
T_SetGauge(t) ==
    /\ tpc[t] = "set_gauge"
    /\ prediction_score_avg' = tavg[t]
    /\ Goto(t, "done")
    /\ UNCHANGED <<predictions_total, prediction_score_histogram,
                   low_score_predictions, running_scores, calls,
                   tscore, tsum, tavg>>

ThreadStep(t) ==
    \/ T_Call(t)
    \/ T_IncTotal(t)
    \/ T_Observe(t)
    \/ T_LowScore(t)
    \/ T_Append(t)
    \/ T_CheckLen(t)
    \/ T_Pop(t)
    \/ T_CheckNonEmpty(t)
    \/ T_Sum(t)
    \/ T_Divide(t)
    \/ T_SetGauge(t)

NextThreads == \E t \in Threads : ThreadStep(t)

SpecThreads == InitThreads /\ [][NextThreads]_vars

(***************************************************************************)
(* Spec: the web service.  Both handlers are coroutines of one event loop: *)
(* a handler runs without interruption from one await to the next.         *)
(* predict has no await; ingest_data awaits the download.  The response a  *)
(* handler returns is sent to the caller, and only then are the handler's  *)
(* BackgroundTasks run, one after the other in the order they were added;  *)
(* a task that raises ends the run.  The tasks are plain functions, so     *)
(* they run in worker threads and the store calls of different requests    *)
(* interleave.                                                             *)
(***************************************************************************)
\* app/config.py: MINIO_BUCKET
MINIO_BUCKET == "images"

\* request bodies of POST /ingest (app/models.py: IngestRequest)
Urls == {"http://a/1.jpg", "http://b/2.jpg"}
Annotations == {None, "ground truth"}

\* bytes: an uploaded file, or the body of a downloaded resource
Contents == {"jpeg bytes", "not an image"}

\* what the remote server or the network does to client.get
DownloadResults ==
    {[exc |-> None, status_code |-> 200, content |-> c] : c \in Contents}
    \cup {[exc |-> None, status_code |-> 404, content |-> "not an image"]}
    \cup {[exc |-> e, status_code |-> 0, content |-> ""] :
             e \in {"httpx.ConnectError", "Exception"}}

\* the time the remote server takes to answer
DownloadTimes == {1, DOWNLOAD_TIMEOUT + 1}

\* what the pretrained model does: (predicted_text, confidence), or raise
InferenceOutcomes ==
    {[exc |-> None, predicted_text |-> "hello", score |-> 80],
     [exc |-> None, predicted_text |-> "world", score |-> 30],
     [exc |-> "RuntimeError", predicted_text |-> "", score |-> 0]}

\* httpx's exception classes: the subclasses of httpx.HTTPError
IsHTTPError_NetworkOnly(exc) == exc \in {"httpx.ConnectError"}

IsHTTPError(exc) ==
    exc \in {"httpx.ConnectError", "httpx.ReadTimeout",
             "httpx.HTTPStatusError"}

\* await client.get(url) under AsyncClient(timeout=30.0)
ClientGet(result, elapsed) ==
    IF elapsed > DOWNLOAD_TIMEOUT
    THEN [exc |-> "httpx.ReadTimeout", status_code |-> 0, content |-> ""]
    ELSE result

\* response.raise_for_status()
RaiseForStatus(resp) ==
    IF resp.status_code >= 400 THEN "httpx.HTTPStatusError" ELSE None

\* Image.open(...).convert("RGB")
ImageOpen(data) ==
    IF data = "jpeg bytes" THEN None ELSE "PIL.UnidentifiedImageError"

\* datetime.now().strftime('%Y%m%d_%H%M%S_%f'): the time to the second, and
\* the microseconds of that second
StrfTime(t) == <<t \div USEC_PER_SEC, t % USEC_PER_SEC>>

\* f"{MINIO_BUCKET}/{image_id}.jpg"
MinioPath(image_id) == <<MINIO_BUCKET, image_id, ".jpg">>

\* f"{image_id}.jpg"
ObjectKey(image_id) == <<image_id, ".jpg">>

\* the except clauses of ingest_data
IngestErrorResponse_AlwaysBadRequest(exc) ==
    [status_code |-> 400,
     detail |-> <<"Failed to download image from URL: ", exc>>]

IngestErrorResponse(exc) ==
    IF IsHTTPError(exc)
    THEN [status_code |-> 400,
          detail |-> <<"Failed to download image from URL: ", exc>>]
    ELSE [status_code |-> 500,
          detail |-> <<"Internal error during ingestion: ", exc>>]

\* IngestResponse(status="success", ...)
IngestResponse(image_id, prediction) ==
    [status_code |-> 200, status |-> "success", image_id |-> image_id,
     predicted_text |-> prediction.predicted_text,
     score |-> prediction.score]

\* PredictOutput(predicted_text=..., score=...)
PredictOutput(prediction) ==
    [status_code |-> 200, predicted_text |-> prediction.predicted_text,
     score |-> prediction.score]

\* an exception that leaves a handler: the framework answers 500
ServerError == [status_code |-> 500, detail |-> <<"Internal Server Error">>]

\* background_tasks.add_task(upload_image_to_minio, image_data, image_id)
UploadTask(image_data, image_id) ==
    [fn |-> "upload_image_to_minio", image_data |-> image_data,
     image_id |-> image_id]

\* background_tasks.add_task(save_metadata_to_mongo, image_id=..., ...)
SaveTask_UrlFromPath(image_id, image_url, prediction, annotation) ==
    [fn |-> "save_metadata_to_mongo", image_id |-> image_id,
     image_url |-> MinioPath(image_id), minio_path |-> MinioPath(image_id),
     predicted_text |-> prediction.predicted_text,
     score |-> prediction.score, annotation |-> annotation]

SaveTask(image_id, image_url, prediction, annotation) ==
    [fn |-> "save_metadata_to_mongo", image_id |-> image_id,
     image_url |-> image_url, minio_path |-> MinioPath(image_id),
     predicted_text |-> prediction.predicted_text,
     score |-> prediction.score, annotation |-> annotation]

\* the document save_metadata_to_mongo builds
Document(task, utcnow) ==
    [image_id |-> task.image_id, timestamp |-> utcnow,
     image_url |-> task.image_url, minio_path |-> task.minio_path,
     predicted_text |-> task.predicted_text, score |-> task.score,
     annotation |-> task.annotation]

Set(f, r, v) == [f EXCEPT ![r] = v]

\* requests are numbered in the order they arrive
Arrives(r) == rpc[r] = "new" /\ \A q \in 1 .. r - 1 : rpc[q] # "new"

StoresUnchanged == UNCHANGED <<bucket_exists, objects, collection>>

\* no thread other than the event loop's calls update_metrics
NoThreads == UNCHANGED threadVars

\* the first failure of a handler's stages, as [failed_at, exc]
FirstFailure(stages) ==
    LET bad == {i \in 1 .. Len(stages) : stages[i].exc # None}
    IN  IF bad = {} THEN [failed_at |-> None, exc |-> None]
        ELSE LET i == CHOOSE j \in bad : \A k \in bad : j <= k
             IN  [failed_at |-> stages[i].stage, exc |-> stages[i].exc]

\* the scratch files left by predict: the file is unlinked by the finally
\* clause, which is reached only once the try statement was entered
ScratchAfterPredict(files, tmp, entered_try) ==
    IF entered_try THEN files \ {tmp} ELSE files \cup {tmp}

\* update_metrics(confidence) follows perform_prediction inside the try
\* block: it is reached only when no earlier statement raised
MetricsStep_Always(ok, score) == UpdateMetrics(score)

MetricsStep(ok, score) ==
    IF ok THEN UpdateMetrics(score) ELSE UNCHANGED metricsVars

\* the two background_tasks.add_task calls of ingest_data, the upload
\* first; they follow update_metrics inside the try block
TasksAfter_SaveFirst(ok, upload, save) ==
    IF ok THEN <<save, upload>> ELSE <<>>

TasksAfter_UploadAlways(ok, upload, save) ==
    IF ok THEN <<upload, save>> ELSE <<upload>>

TasksAfter(ok, upload, save) == IF ok THEN <<upload, save>> ELSE <<>>

\* POST /predict: the whole handler (it has no await)
Predict(r) ==
    /\ NoThreads
    /\ Arrives(r)
    /\ \E file \in Contents, copy_exc \in {None, "OSError"},
          inf \in InferenceOutcomes :
          LET fail == FirstFailure(<<
                        [stage |-> "copy", exc |-> copy_exc],
                        [stage |-> "decode", exc |-> ImageOpen(file)],
                        [stage |-> "inference", exc |-> inf.exc]>>)
              ok == fail.failed_at = None
          IN  /\ rin' = Set(rin, r, [endpoint |-> "/predict", file |-> file])
              /\ outcome' = Set(outcome, r,
                     [failed_at |-> fail.failed_at, exc |-> fail.exc,
                      predicted_text |-> IF ok THEN inf.predicted_text ELSE "",
                      score |-> IF ok THEN inf.score ELSE 0])
              /\ scratch' = ScratchAfterPredict(scratch, r,
                                                fail.failed_at # "copy")
              /\ MetricsStep(ok, inf.score)
              /\ response' = Set(response, r,
                     IF ok THEN PredictOutput(inf) ELSE ServerError)
    /\ rpc' = Set(rpc, r, "responding")
    /\ StoresUnchanged
    /\ UNCHANGED <<now, delivered, tasks, invoked, bgError>>

\* POST /ingest: the handler up to "await client.get(...)"
IngestBegin(r) ==
    /\ NoThreads
    /\ Arrives(r)
    /\ \E url \in Urls, annotation \in Annotations :
          rin' = Set(rin, r, [endpoint |-> "/ingest", image_url |-> url,
                              annotation |-> annotation])
    /\ rpc' = Set(rpc, r, "downloading")
    /\ StoresUnchanged
    /\ UNCHANGED <<metricsVars, now, outcome, response, delivered, tasks,
                   invoked, bgError, scratch>>

\* POST /ingest: the handler from the end of the download to its return
\* or to the HTTPException it raises
IngestResume(r) ==
    /\ NoThreads
    /\ rpc[r] = "downloading"
    /\ \E result \in DownloadResults, elapsed \in DownloadTimes,
          inf \in InferenceOutcomes :
          LET got == ClientGet(result, elapsed)
              image_data == got.content
              fail == FirstFailure(<<
                        [stage |-> "download", exc |-> got.exc],
                        [stage |-> "download", exc |-> RaiseForStatus(got)],
                        [stage |-> "decode", exc |-> ImageOpen(image_data)],
                        [stage |-> "inference", exc |-> inf.exc]>>)
              ok == fail.failed_at = None
              image_id == StrfTime(now)
          IN  /\ outcome' = Set(outcome, r,
                     [failed_at |-> fail.failed_at, exc |-> fail.exc,
                      predicted_text |-> IF ok THEN inf.predicted_text ELSE "",
                      score |-> IF ok THEN inf.score ELSE 0])
              /\ MetricsStep(ok, inf.score)
              /\ tasks' = Set(tasks, r,
                     TasksAfter(ok, UploadTask(image_data, image_id),
                                SaveTask(image_id, rin[r].image_url, inf,
                                         rin[r].annotation)))
              /\ response' = Set(response, r,
                     IF ok THEN IngestResponse(image_id, inf)
                     ELSE IngestErrorResponse(fail.exc))
    /\ rpc' = Set(rpc, r, "responding")
    /\ StoresUnchanged
    /\ UNCHANGED <<now, rin, delivered, invoked, bgError, scratch>>

\* the framework sends the handler's response to the caller
Deliver(r) ==
    /\ NoThreads
    /\ rpc[r] = "responding"
    /\ delivered' = Set(delivered, r, response[r])
    /\ rpc' = Set(rpc, r, IF tasks[r] = <<>> THEN "closed" ELSE "background")
    /\ StoresUnchanged
    /\ UNCHANGED <<metricsVars, now, rin, outcome, response, tasks, invoked,
                   bgError, scratch>>

\* tasks given to background_tasks.add_task run after the response is sent
CanRunBackground_BeforeResponse(r) == rpc[r] \in {"responding", "background"}

CanRunBackground(r) == rpc[r] = "background"

NextTaskIs(r, fn) ==
    CanRunBackground(r) /\ tasks[r] # <<>> /\ Head(tasks[r]).fn = fn

\* a background task raised: the tasks after it are not run
TaskRaises(r) ==
    /\ bgError' = Set(bgError, r, TRUE)
    /\ rpc' = Set(rpc, r, "closed")

\* a background task returned
TaskReturns(r) ==
    /\ tasks' = Set(tasks, r, Tail(tasks[r]))
    /\ rpc' = Set(rpc, r, IF Tail(tasks[r]) = <<>> THEN "closed"
                          ELSE "background")

\* upload_image_to_minio -> ensure_bucket_exists: s3_client.head_bucket
HeadBucket(r) ==
    /\ NoThreads
    /\ NextTaskIs(r, "upload_image_to_minio")
    /\ invoked' = Set(invoked, r, Append(invoked[r], "upload_image_to_minio"))
    /\ rpc' = Set(rpc, r, IF bucket_exists THEN "put_object"
                          ELSE "create_bucket")
    /\ StoresUnchanged
    /\ UNCHANGED <<metricsVars, now, rin, outcome, response, delivered,
                   tasks, bgError, scratch>>

\* ensure_bucket_exists, except ClientError: s3_client.create_bucket; the
\* store refuses to create a bucket that exists
CreateBucket(r) ==
    /\ NoThreads
    /\ rpc[r] = "create_bucket"
    /\ IF bucket_exists
       THEN TaskRaises(r) /\ UNCHANGED bucket_exists
       ELSE /\ bucket_exists' = TRUE
            /\ rpc' = Set(rpc, r, "put_object")
            /\ UNCHANGED bgError
    /\ UNCHANGED <<metricsVars, now, rin, outcome, response, delivered,
                   tasks, invoked, scratch, objects, collection>>

\* s3_client.put_object(Bucket, Key, Body, ContentType)
PutObject(r) ==
    /\ NoThreads
    /\ rpc[r] = "put_object"
    /\ \E store_fails \in BOOLEAN :
          IF store_fails
          THEN TaskRaises(r) /\ UNCHANGED <<tasks, objects>>
          ELSE LET task == Head(tasks[r])
                   key == ObjectKey(task.image_id)
               IN  /\ objects' =
                          {o \in objects : o.Key # key}
                          \cup {[Key |-> key, Body |-> task.image_data,
                                 ContentType |-> "image/jpeg"]}
                   /\ TaskReturns(r)
                   /\ UNCHANGED bgError
    /\ UNCHANGED <<metricsVars, now, rin, outcome, response, delivered,
                   invoked, scratch, bucket_exists, collection>>

\* save_metadata_to_mongo: collection.insert_one(document)
InsertOne(r) ==
    /\ NoThreads
    /\ NextTaskIs(r, "save_metadata_to_mongo")
    /\ invoked' = Set(invoked, r, Append(invoked[r], "save_metadata_to_mongo"))
    /\ \E store_fails \in BOOLEAN :
          IF store_fails
          THEN TaskRaises(r) /\ UNCHANGED <<tasks, collection>>
          ELSE /\ collection' =
                      Append(collection, Document(Head(tasks[r]), now))
               /\ TaskReturns(r)
               /\ UNCHANGED bgError
    /\ UNCHANGED <<metricsVars, now, rin, outcome, response, delivered,
                   scratch, bucket_exists, objects>>

\* time passes.  datetime.now() reads the wall clock, which all requests
\* (and all worker processes writing to the same stores) share: two reads
\* with no tick between them return the same microsecond
Tick ==
    /\ NoThreads
    /\ now < USEC_PER_SEC - 1 + MaxTicks
    /\ now' = now + 1
    /\ UNCHANGED <<metricsVars, rpc, rin, outcome, response, delivered,
                   tasks, invoked, bgError, scratch, bucket_exists, objects,
                   collection>>

Background(r) ==
    \/ HeadBucket(r)
    \/ CreateBucket(r)
    \/ PutObject(r)
    \/ InsertOne(r)

RequestStep(r) ==
    \/ Predict(r)
    \/ IngestBegin(r)
    \/ IngestResume(r)
    \/ Deliver(r)
    \/ Background(r)

Init == MetricsInit /\ ThreadsIdle /\ ServiceInit

Next ==
    \/ Tick
    \/ \E r \in Requests : RequestStep(r)

Spec == Init /\ [][Next]_vars

\* the event loop sends every response, and the framework runs the
\* background tasks it was given
FairSpec ==
    Spec /\ \A r \in Requests : WF_vars(Deliver(r) \/ Background(r))

(***************************************************************************)
(* SpecWindow: update_metrics called on a window of any length.            *)
(* running_scores is a module-level list that importers can fill (the test *)
(* of the repository fills it with 1001 entries before the call), so the   *)
(* call is examined on short windows and on windows around the bound.      *)
(***************************************************************************)
WindowLengths ==
    (0 .. WindowSlack)
    \cup (RUNNING_SCORES_MAX - WindowSlack .. RUNNING_SCORES_MAX + WindowSlack)

InitWindow ==
    /\ \E n \in WindowLengths : running_scores = Prefill(n)
    /\ predictions_total = 0
    /\ prediction_score_histogram = [count |-> 0, sum |-> 0]
    /\ low_score_predictions = 0
    /\ prediction_score_avg = [num |-> 0, den |-> 1]
    /\ calls = <<>>
    /\ ThreadsIdle
    /\ ServiceInit

CallOnWindow ==
    /\ Len(calls) < MaxWindowCalls
    /\ \E score \in Scores : UpdateMetrics(score)
    /\ UNCHANGED <<threadVars, serviceVars>>

NextWindow == CallOnWindow

SpecWindow == InitWindow /\ [][NextWindow]_vars

(***************************************************************************)
(* Claims                                                                  *)
(***************************************************************************)
Min(a, b) == IF a < b THEN a ELSE b

\* the last n elements of s
LastN(s, n) == SubSeq(s, Len(s) - n + 1, Len(s))

\* C1: after every completed call of update_metrics, starting from the
\* empty window, the rolling window holds at most 1000 entries.
C1_WindowBounded == Len(running_scores) <= RUNNING_SCORES_MAX

C1_Witness ==
    /\ Len(calls) > RUNNING_SCORES_MAX
    /\ Len(running_scores) = RUNNING_SCORES_MAX

\* C2: after n sequential calls with scores s1..sn the window is exactly
\* the last min(n, 1000) of those scores, in arrival order.
C2_Fifo ==
    running_scores = LastN(calls, Min(Len(calls), RUNNING_SCORES_MAX))

C2_Witness ==
    /\ Len(calls) = RUNNING_SCORES_MAX + 2
    /\ running_scores[1] = calls[3]
    /\ running_scores[1] # calls[1]
    /\ running_scores[RUNNING_SCORES_MAX] = calls[Len(calls)]

\* C3: once a score has been recorded, the gauge equals the arithmetic
\* mean of exactly the scores retained in the window.
C3_GaugeIsMean ==
    running_scores # <<>> =>
        prediction_score_avg.num * Len(running_scores)
            = PySum(running_scores) * prediction_score_avg.den

C3_Witness ==
    /\ Len(calls) > RUNNING_SCORES_MAX
    /\ PySum(running_scores) # PySum(LastN(calls, RUNNING_SCORES_MAX - 1))
    /\ prediction_score_avg.den = RUNNING_SCORES_MAX
    /\ prediction_score_avg.num = PySum(running_scores)

\* C4: a call with score < 0.5 adds exactly 1 to the low-score counter; a
\* call with score >= 0.5 (0.5 included) leaves it unchanged.
C4_LowScoreStep ==
    [][predictions_total' = predictions_total + 1 =>
          LET score == calls'[Len(calls')]
          IN  /\ score < 50 =>
                    low_score_predictions' = low_score_predictions + 1
              /\ score >= 50 =>
                    low_score_predictions' = low_score_predictions]_vars

C4_Witness ==
    /\ Len(calls) > RUNNING_SCORES_MAX
    /\ calls[Len(calls) - 2] = 80
    /\ calls[Len(calls) - 1] = 30
    /\ calls[Len(calls)] = 50
    /\ low_score_predictions
           = Cardinality({i \in 1 .. Len(calls) : calls[i] < 50})

\* C5: for any interleaving of concurrent update_metrics calls, once the
\* calls have returned no increment is lost, the window holds at most 1000
\* entries, and window and gauge are what the calls run one after the
\* other (in the order of their appends) leave.
C5_ConcurrentCallsAtomic ==
    (\A t \in Threads : tpc[t] \in {"idle", "done"}) =>
        /\ predictions_total = Len(calls)
        /\ prediction_score_histogram.count = Len(calls)
        /\ low_score_predictions = LowCount(calls)
        /\ Len(running_scores) <= RUNNING_SCORES_MAX
        /\ running_scores = LastN(calls, Min(Len(calls), RUNNING_SCORES_MAX))
        /\ prediction_score_avg.num * Len(running_scores)
               = PySum(running_scores) * prediction_score_avg.den

\* the requests of one endpoint whose handler has produced its response
Answered(r, endpoint) ==
    /\ rin[r] # Nil
    /\ rin[r].endpoint = endpoint
    /\ response[r] # Nil

IsIngestSuccess(r) ==
    Answered(r, "/ingest") /\ response[r].status_code = 200

\* C6: in the ingest handler the response is sent before the Storage
\* Adapter or the Metadata Recorder is invoked, and a failure of a
\* background write neither changes the response sent nor reaches the
\* caller.
C6_ResponseBeforeBackground ==
    /\ [](\A r \in Requests :
            /\ invoked[r] # <<>> =>
                  /\ delivered[r] # Nil
                  /\ delivered[r] = response[r]
                  /\ delivered[r].status_code = 200
            /\ bgError[r] =>
                  /\ delivered[r] # Nil
                  /\ delivered[r].status_code = 200
                  /\ delivered[r].status = "success")
    /\ [][\A r \in Requests :
            delivered[r] # Nil =>
                delivered'[r] = delivered[r] /\ response'[r] = response[r]]_vars

C6_Witness ==
    \E r \in Requests :
        /\ bgError[r]
        /\ invoked[r] = <<"upload_image_to_minio", "save_metadata_to_mongo">>
        /\ delivered[r] # Nil
        /\ delivered[r].status_code = 200

\* C7: an ingest request whose download fails with a network error, an
\* HTTP error status or the 30-unit timeout is answered 400 with a detail
\* that names the failure.
C7_DownloadFailureIs400 ==
    \A r \in Requests :
        ( /\ Answered(r, "/ingest")
          /\ outcome[r].failed_at = "download"
          /\ outcome[r].exc \in {"httpx.ConnectError", "httpx.ReadTimeout",
                                 "httpx.HTTPStatusError"} )
        => /\ response[r].status_code = 400
           /\ response[r].detail
                 = <<"Failed to download image from URL: ", outcome[r].exc>>
           /\ delivered[r] \in {Nil, response[r]}

C7_Witness ==
    \E r, q \in Requests :
        /\ Answered(r, "/ingest") /\ Answered(q, "/ingest")
        /\ outcome[r].exc = "httpx.ReadTimeout"
        /\ outcome[q].exc = "httpx.HTTPStatusError"
        /\ delivered[r] # Nil /\ delivered[r].status_code = 400
        /\ delivered[q] # Nil /\ delivered[q].status_code = 400

\* C8: an ingest request that fails with anything but an httpx.HTTPError
\* (a decode error, an inference error, a non-HTTP exception of the
\* download call) is answered 500 with a detail that begins "Internal error
\* during ingestion", whatever the stage.
C8_OtherFailureIs500 ==
    \A r \in Requests :
        ( /\ Answered(r, "/ingest")
          /\ outcome[r].failed_at # None
          /\ outcome[r].exc \notin {"httpx.ConnectError", "httpx.ReadTimeout",
                                    "httpx.HTTPStatusError"} )
        => /\ response[r].status_code = 500
           /\ response[r].detail[1] = "Internal error during ingestion: "
           /\ delivered[r] \in {Nil, response[r]}

C8_Witness ==
    \E r, q \in Requests :
        /\ Answered(r, "/ingest") /\ Answered(q, "/ingest")
        /\ outcome[r].failed_at = "decode"
        /\ outcome[q].failed_at = "download" /\ outcome[q].exc = "Exception"
        /\ delivered[r] # Nil /\ delivered[r].status_code = 500
        /\ delivered[q] # Nil /\ delivered[q].status_code = 500
        /\ delivered[r].detail[1] = delivered[q].detail[1]

\* the document store holds a record with the fields of request r
RecordWritten(r) ==
    \E i \in 1 .. Len(collection) :
        /\ collection[i].image_id = response[r].image_id
        /\ collection[i].predicted_text = response[r].predicted_text
        /\ collection[i].score = response[r].score
        /\ collection[i].annotation = rin[r].annotation
        /\ collection[i].image_url = rin[r].image_url

\* C9: an ingest request answered 200 carries status "success", a
\* non-empty image_id and the adapter's text and score; its handler
\* schedules exactly one storage write and one record write, each is
\* invoked at most once, and exactly once when its background work ended
\* with no store failure, the record with the request's fields and URL
\* then being in the document store; and unless a store fails that record
\* is eventually written.
C9_SuccessIsRecorded ==
    /\ [](\A r \in Requests :
            IsIngestSuccess(r) =>
                /\ response[r].status = "success"
                /\ response[r].image_id # <<>>
                /\ outcome[r].failed_at = None
                /\ response[r].predicted_text = outcome[r].predicted_text
                /\ response[r].score = outcome[r].score
                /\ rpc[r] = "responding" =>
                      /\ Len(tasks[r]) = 2
                      /\ tasks[r][1].fn = "upload_image_to_minio"
                      /\ tasks[r][2].fn = "save_metadata_to_mongo"
                /\ invoked[r] \in
                      {<<>>, <<"upload_image_to_minio">>,
                       <<"upload_image_to_minio", "save_metadata_to_mongo">>}
                /\ (rpc[r] = "closed" /\ ~bgError[r]) =>
                      /\ invoked[r] = <<"upload_image_to_minio",
                                        "save_metadata_to_mongo">>
                      /\ RecordWritten(r))
    /\ \A r \in Requests :
          IsIngestSuccess(r) ~>
              (bgError[r] \/ (IsIngestSuccess(r) /\ RecordWritten(r)))

C9_Witness ==
    \E r \in Requests :
        /\ IsIngestSuccess(r)
        /\ rpc[r] = "closed"
        /\ ~bgError[r]
        /\ rin[r].annotation # None
        /\ RecordWritten(r)

\* C10: in every terminal state of the upload-predict handler the scratch
\* file it created no longer exists.
C10_ScratchReleased ==
    \A r \in Requests : Answered(r, "/predict") => r \notin scratch

\* C11: any two ingest requests that both succeed, two that read the clock
\* at the same microsecond included, receive distinct image_id values, so
\* no stored image or record of one is keyed by the id of the other.
C11_ImageIdUnique ==
    \A r, q \in Requests :
        (r # q /\ IsIngestSuccess(r) /\ IsIngestSuccess(q))
        => response[r].image_id # response[q].image_id

\* C12: the ensure-container step tolerates a race: a store call that saw
\* the bucket missing and issues the create goes on to write its object
\* without failing, also when another call created the bucket in between;
\* and a call that sees the bucket present issues no create.
C12_EnsureBucketToleratesRace ==
    [][\A r \in Requests :
          /\ (rpc[r] = "create_bucket" /\ rpc'[r] # rpc[r])
                => (rpc'[r] = "put_object" /\ ~bgError'[r])
          /\ (NextTaskIs(r, "upload_image_to_minio") /\ bucket_exists
                /\ rpc'[r] # rpc[r])
                => rpc'[r] = "put_object"]_vars

\* the content store holds an image under the key of image_id
ImageStored(image_id) == \E o \in objects : o.Key = ObjectKey(image_id)

\* the document store holds a record whose image is not in the content store
RecordWithoutImage ==
    \E i \in 1 .. Len(collection) : ~ImageStored(collection[i].image_id)

\* C13, as the code behaves: the storage write and the record write of one
\* ingest request are run one after the other, the upload first, and the
\* record write starts only when the upload has returned; so every record
\* in the document store has its image in the content store.
C13_RecordAfterImage ==
    /\ ~RecordWithoutImage
    /\ \A r \in Requests :
          /\ (invoked[r] # <<>> /\ Answered(r, "/ingest")) =>
                invoked[r][1] = "upload_image_to_minio"
          /\ (Len(invoked[r]) > 1 /\ Answered(r, "/ingest")) =>
                /\ invoked[r][2] = "save_metadata_to_mongo"
                /\ ImageStored(response[r].image_id)

C13_Witness ==
    \E r \in Requests :
        /\ IsIngestSuccess(r)
        /\ invoked[r] = <<"upload_image_to_minio", "save_metadata_to_mongo">>
        /\ RecordWritten(r)
        /\ ImageStored(response[r].image_id)
        /\ Len(collection) = NumRequests

\* C13, as stated: the two writes are unordered, and a state is reached in
\* which the record of an image_id is in the document store while the
\* image of that image_id is not in the content store.  (No behaviour
\* reaches such a state, which C13_RecordAfterImage establishes.)
C13_RecordBeforeImage == <>RecordWithoutImage

\* C14: a call of update_metrics on a window of length n appends exactly
\* one score, the score of the call, and removes at most one entry, the
\* oldest: the length after the call is n + 1 when n < 1000 and n when
\* n >= 1000, so a window of 1001 entries still holds 1001.
C14_OneInAtMostOneOut ==
    [][LET n == Len(running_scores)
           score == calls'[Len(calls')]
       IN  /\ Len(calls') = Len(calls) + 1
           /\ Len(running_scores') = IF n < RUNNING_SCORES_MAX THEN n + 1
                                      ELSE n
           /\ running_scores' =
                  IF n < RUNNING_SCORES_MAX
                  THEN running_scores \o <<score>>
                  ELSE SubSeq(running_scores, 2, n) \o <<score>>]_vars

C14_Witness ==
    /\ Len(calls) = MaxWindowCalls
    /\ Len(running_scores) = RUNNING_SCORES_MAX + 1
    /\ running_scores[1] = FillScore(1 + MaxWindowCalls)
    /\ LastN(running_scores, MaxWindowCalls) = calls

\* the requests in which the Inference Adapter returned a result
InferenceReturned ==
    {r \in Requests : outcome[r] # Nil /\ outcome[r].failed_at = None}

\* C15: the metrics are updated exactly once per request whose inference
\* succeeded, with the score returned to the caller, and not at all
\* otherwise: the total counter equals the number of requests in which
\* the adapter returned a result, and a request that fails at download,
\* decode or inference leaves counters, histogram, window and gauge
\* unchanged.
C15_MetricsOncePerSuccess ==
    /\ [](/\ predictions_total = Cardinality(InferenceReturned)
          /\ prediction_score_histogram.count = predictions_total
          /\ Len(calls) = predictions_total
          /\ \A r \in InferenceReturned :
                /\ response[r].status_code = 200
                /\ \E i \in 1 .. Len(calls) : calls[i] = response[r].score)
    /\ [][/\ (\A r \in Requests : outcome'[r] = outcome[r])
                => UNCHANGED metricsVars
          /\ \A r \in Requests :
                (outcome'[r] # outcome[r]) =>
                    IF outcome'[r].failed_at = None
                    THEN /\ predictions_total' = predictions_total + 1
                         /\ calls' = Append(calls, response'[r].score)
                         /\ running_scores' =
                                AppendAndTrim(running_scores,
                                              response'[r].score)
                         /\ prediction_score_histogram'.sum =
                                prediction_score_histogram.sum
                                + response'[r].score
                    ELSE /\ response'[r].status_code \in {400, 500}
                         /\ UNCHANGED metricsVars]_vars

C15_Witness ==
    \E r, q \in Requests :
        /\ Answered(r, "/ingest") /\ outcome[r].failed_at = "inference"
        /\ Answered(q, "/predict") /\ outcome[q].failed_at = None
        /\ r < q
        /\ predictions_total = 1
        /\ running_scores = <<response[q].score>>
        /\ delivered[r] # Nil /\ delivered[q] # Nil

\* C16: an ingest request answered 400 or 500 schedules and causes no
\* write to the content store and no insert into the document store;
\* every stored image and every record belongs to an ingest request that
\* returned 200.
C16_FailureWritesNothing ==
    /\ \A r \in Requests :
          (Answered(r, "/ingest") /\ response[r].status_code \in {400, 500})
          => /\ outcome[r].failed_at \in {"download", "decode", "inference"}
             /\ tasks[r] = <<>>
             /\ invoked[r] = <<>>
             /\ ~bgError[r]
             /\ rpc[r] \in {"responding", "closed"}
    /\ \A o \in objects :
          \E r \in Requests :
              /\ IsIngestSuccess(r)
              /\ delivered[r] = response[r]
              /\ o.Key = ObjectKey(response[r].image_id)
              /\ invoked[r] # <<>>
    /\ \A i \in 1 .. Len(collection) :
          \E r \in Requests :
              /\ IsIngestSuccess(r)
              /\ delivered[r] = response[r]
              /\ collection[i].image_id = response[r].image_id
              /\ collection[i].image_url = rin[r].image_url
              /\ collection[i].score = response[r].score
              /\ Len(invoked[r]) = 2

C16_Witness ==
    \E r, q \in Requests :
        /\ Answered(r, "/ingest") /\ response[r].status_code = 500
        /\ outcome[r].failed_at = "inference"
        /\ rpc[r] = "closed"
        /\ IsIngestSuccess(q) /\ rpc[q] = "closed"
        /\ Cardinality(objects) = 1
        /\ Len(collection) = 1
        /\ collection[1].image_url = rin[q].image_url
        /\ rin[r].image_url # rin[q].image_url

====
